---- MODULE Spec2Model ----
(***************************************************************************)
(* Symptom checker: the inference chain get_safely_inferred (emergency ->  *)
(* rule based -> LLM -> fallback) of src/llm_wrapper.py, the rule table of  *)
(* src/rule_based_v2.py and the parsing pipeline parse_and_validate_json.   *)
(*                                                                         *)
(* A Python str is a sequence of one-character strings; the character      *)
(* U+2014 (em dash) of the source's literals is the single element "u2014", *)
(* the backtick (U+0060) the single element "u0060".                        *)
(* A float is an integer number of hundredths (0.75 is 75).                 *)
(***************************************************************************)
EXTENDS Integers, Sequences, FiniteSets, TLC

----------------------------------------------------------------------------
(* Python str operations, as the source uses them.                          *)

Chars(s) == [i \in 1..Len(s) |-> SubSeq(s, i, i)]

\* F(x), with x evaluated once and named
With(x, F(_)) == CHOOSE r \in {F(v) : v \in {x}} : TRUE

EmDash == "u2014"

UpperAZ == Chars("ABCDEFGHIJKLMNOPQRSTUVWXYZ")
LowerAZ == Chars("abcdefghijklmnopqrstuvwxyz")
Digits == Chars("0123456789")

IsLowerAZ(c) == \E i \in 1..26 : LowerAZ[i] = c
IsDigit(c) == \E i \in 1..10 : Digits[i] = c
DigitVal(c) == (CHOOSE i \in 1..10 : Digits[i] = c) - 1

\* \s of Python's re and the characters str.strip() removes
IsSpace(c) == c \in {" ", "\n", "\t", "\r"}

LowerChar(c) ==
    IF \E i \in 1..26 : UpperAZ[i] = c
    THEN LowerAZ[CHOOSE i \in 1..26 : UpperAZ[i] = c]
    ELSE c

\* str.lower()
Lower(text) == [i \in 1..Len(text) |-> LowerChar(text[i])]

\* text[i:].startswith(pat), i a 1-based index
MatchAt(text, pat, i) ==
    /\ i >= 1
    /\ i + Len(pat) - 1 <= Len(text)
    /\ \A k \in 1..Len(pat) : text[i + k - 1] = pat[k]

StartsWith(text, pat) == MatchAt(text, pat, 1)
EndsWith(text, pat) == MatchAt(text, pat, Len(text) - Len(pat) + 1)

\* pat in text
Contains(text, pat) == \E i \in 1..(Len(text) - Len(pat) + 1) : MatchAt(text, pat, i)

\* str.find / str.rfind of one character, 1-based, 0 when absent
FindChar(text, c) ==
    IF \E i \in 1..Len(text) : text[i] = c
    THEN CHOOSE i \in 1..Len(text) : text[i] = c /\ \A k \in 1..(i - 1) : text[k] # c
    ELSE 0

RFindChar(text, c) ==
    IF \E i \in 1..Len(text) : text[i] = c
    THEN CHOOSE i \in 1..Len(text) : text[i] = c /\ \A k \in (i + 1)..Len(text) : text[k] # c
    ELSE 0

\* the first index at or after i whose character satisfies Test, Len(text) + 1 if none
NextWhere(text, i, Test(_)) ==
    IF \E k \in i..Len(text) : Test(k)
    THEN CHOOSE k \in i..Len(text) : Test(k) /\ \A m \in i..(k - 1) : ~Test(m)
    ELSE Len(text) + 1

NextIn(text, i, chars) == NextWhere(text, i, LAMBDA k : text[k] \in chars)

RECURSIVE ReplaceFrom(_, _, _, _)
\* one step per occurrence of old, found from left to right
ReplaceFrom(text, old, new, i) ==
    With(NextWhere(text, i, LAMBDA k : MatchAt(text, old, k)), LAMBDA p :
        IF p > Len(text) THEN SubSeq(text, i, Len(text))
        ELSE SubSeq(text, i, p - 1) \o new \o ReplaceFrom(text, old, new, p + Len(old)))

\* str.replace(old, new) for a non-empty old: leftmost, non-overlapping
Replace(text, old, new) == ReplaceFrom(text, old, new, 1)

\* str.strip()
Strip(text) ==
    IF \A i \in 1..Len(text) : IsSpace(text[i]) THEN <<>>
    ELSE LET a == CHOOSE i \in 1..Len(text) :
                      ~IsSpace(text[i]) /\ \A k \in 1..(i - 1) : IsSpace(text[k])
             b == CHOOSE i \in 1..Len(text) :
                      ~IsSpace(text[i]) /\ \A k \in (i + 1)..Len(text) : IsSpace(text[k])
         IN SubSeq(text, a, b)

RECURSIVE SplitLinesFrom(_, _)
\* one step per line
SplitLinesFrom(text, i) ==
    IF i > Len(text) THEN <<>>
    ELSE With(NextIn(text, i, {"\n"}), LAMBDA p :
             <<SubSeq(text, i, p - 1)>> \o SplitLinesFrom(text, p + 1))

\* str.splitlines() for "\n" line ends
SplitLines(text) == SplitLinesFrom(text, 1)

RECURSIVE JoinLines(_)
\* "\n".join(lines)
JoinLines(lines) ==
    IF lines = <<>> THEN <<>>
    ELSE IF Len(lines) = 1 THEN lines[1]
    ELSE lines[1] \o <<"\n">> \o JoinLines(Tail(lines))


\* re.sub(r"[^a-z\s]", " ", text)
StripNonAlpha(text) ==
    [i \in 1..Len(text) |->
        IF IsLowerAZ(text[i]) \/ IsSpace(text[i]) THEN text[i] ELSE " "]

\* index of the first character at or after i that is not white space
RECURSIVE SkipWs(_, _)
SkipWs(s, i) ==
    IF i <= Len(s) /\ IsSpace(s[i]) THEN SkipWs(s, i + 1) ELSE i

----------------------------------------------------------------------------
(* src/rule_based_v2.py                                                     *)

SYNONYMS == <<
    <<Chars("throwing up"), Chars("vomiting")>>,
    <<Chars("throw up"), Chars("vomiting")>>,
    <<Chars("belly ache"), Chars("abdominal pain")>>,
    <<Chars("stomach ache"), Chars("abdominal pain")>>,
    <<Chars("feverish"), Chars("fever")>>,
    <<Chars("breathless"), Chars("shortness of breath")>>,
    <<Chars("light headed"), Chars("lightheaded")>>,
    <<Chars("soar throat"), Chars("sore throat")>>,
    <<Chars("soar"), Chars("sore")>>,
    <<Chars("feaver"), Chars("fever")>>,
    <<Chars("temprature"), Chars("temperature")>> >>

RULES == <<
    <<Chars("fever"), <<Chars("flu"), Chars("infection")>> >>,
    <<Chars("sore throat"), <<Chars("throat infection"), Chars("cold")>> >>,
    <<Chars("vomiting"), <<Chars("food poisoning"), Chars("gastroenteritis")>> >>,
    <<Chars("cough"), <<Chars("cold"), Chars("bronchitis")>> >>,
    <<Chars("headache"), <<Chars("migraine"), Chars("stress")>> >>,
    <<Chars("fatigue"), <<Chars("anemia"), Chars("stress"), Chars("sleep deprivation")>> >> >>

RECURSIVE ApplySynonyms(_, _)
ApplySynonyms(text, k) ==
    IF k > Len(SYNONYMS) THEN text
    ELSE With(Replace(text, SYNONYMS[k][1], SYNONYMS[k][2]), LAMBDA t :
             ApplySynonyms(t, k + 1))

normalize_text(text) ==
    With(ApplySynonyms(Lower(text), 1), LAMBDA t : With(StripNonAlpha(t), LAMBDA u : Strip(u)))

RECURSIVE RuleResults(_, _)
RuleResults(text, k) ==
    IF k > Len(RULES) THEN <<>>
    ELSE (IF Contains(text, RULES[k][1])
          THEN [n \in 1..Len(RULES[k][2]) |-> [cond |-> RULES[k][2][n], score |-> 100]]
          ELSE <<>>)
         \o RuleResults(text, k + 1)

\* the rule table applied to the text as given, not to its normal form
infer_conditions_unnormalized(symptom_text) == RuleResults(symptom_text, 1)

\* the list of (cond, score) pairs; every score is 1.0
infer_conditions(symptom_text) ==
    With(normalize_text(symptom_text), LAMBDA text : RuleResults(text, 1))

----------------------------------------------------------------------------
(* json.loads: objects, arrays, strings, numbers without exponent, null,     *)
(* true, false.  An object is the sequence of its (key, value) pairs in      *)
(* insertion order, a repeated key keeping its place and its last value.     *)

JNull == [t |-> "null", v |-> <<>>]
JStr(c) == [t |-> "str", v |-> c]
JNum(n) == [t |-> "num", v |-> n]
JBool(b) == [t |-> "bool", v |-> b]
JArr(items) == [t |-> "arr", v |-> items]
JObj(pairs) == [t |-> "obj", v |-> pairs]

HasKey(pairs, k) == \E n \in 1..Len(pairs) : pairs[n].k = k
GetKey(pairs, k) == pairs[CHOOSE n \in 1..Len(pairs) : pairs[n].k = k].x
PutKey(pairs, k, x) ==
    IF HasKey(pairs, k)
    THEN [n \in 1..Len(pairs) |-> IF pairs[n].k = k THEN [k |-> k, x |-> x] ELSE pairs[n]]
    ELSE Append(pairs, [k |-> k, x |-> x])

ParseFail == [ok |-> FALSE, v |-> JNull, i |-> 0]
ParseOk(v, i) == [ok |-> TRUE, v |-> v, i |-> i]

RECURSIVE ParseStringBody(_, _, _)
\* the characters after an opening quote, up to the closing one; one step per
\* run of plain characters and per escape
ParseStringBody(s, i, acc) ==
    With(NextIn(s, i, {"\"", "\\", "\n", "\t", "\r"}), LAMBDA p :
    With(acc \o SubSeq(s, i, p - 1), LAMBDA now :
        IF p > Len(s) THEN ParseFail
        ELSE IF s[p] = "\"" THEN ParseOk(JStr(now), p + 1)
        ELSE IF s[p] # "\\" THEN ParseFail   \* strict: no control character in a string
        ELSE IF p + 1 > Len(s) THEN ParseFail
        ELSE IF s[p + 1] \notin {"\"", "\\", "/", "n", "t", "r"} THEN ParseFail
        ELSE ParseStringBody(s, p + 2,
                 Append(now, IF s[p + 1] = "n" THEN "\n"
                             ELSE IF s[p + 1] = "t" THEN "\t"
                             ELSE IF s[p + 1] = "r" THEN "\r"
                             ELSE s[p + 1]))))

RECURSIVE DigitsEnd(_, _)
\* index after the run of digits that starts at i
DigitsEnd(s, i) == IF i <= Len(s) /\ IsDigit(s[i]) THEN DigitsEnd(s, i + 1) ELSE i

RECURSIVE IntOf(_, _, _)
\* the integer written by the digits s[a..b]
IntOf(s, a, b) == IF a > b THEN 0 ELSE IntOf(s, a, b - 1) * 10 + DigitVal(s[b])

\* a number whose digits start at a, its integer part ending before e1
NumberFrom(s, neg, a, e1) ==
    LET hasFrac == e1 + 1 <= Len(s) /\ s[e1] = "." /\ IsDigit(s[e1 + 1])
    IN  With(IF hasFrac THEN DigitsEnd(s, e1 + 1) ELSE e1, LAMBDA e2 :
        With(IntOf(s, a, e1 - 1) * 100
               + (IF hasFrac THEN DigitVal(s[e1 + 1]) * 10 ELSE 0)
               + (IF hasFrac /\ e2 > e1 + 2 THEN DigitVal(s[e1 + 2]) ELSE 0), LAMBDA mag :
            ParseOk(JNum(IF neg THEN 0 - mag ELSE mag), e2)))

\* (-?(?:0|[1-9]\d*))(\.\d+)? ; the value in hundredths, further digits dropped
ParseNumber(s, i) ==
    With(i <= Len(s) /\ s[i] = "-", LAMBDA neg :
    With(IF neg THEN i + 1 ELSE i, LAMBDA a :
        IF ~(a <= Len(s) /\ IsDigit(s[a])) THEN ParseFail
        ELSE NumberFrom(s, neg, a, IF s[a] = "0" THEN a + 1 ELSE DigitsEnd(s, a))))

RECURSIVE ParseValue(_, _)
RECURSIVE ParseMembers(_, _, _)
RECURSIVE ParseElements(_, _, _)

ParseValue(s, i0) ==
    With(SkipWs(s, i0), LAMBDA i :
        IF i > Len(s) THEN ParseFail
        ELSE IF s[i] = "\"" THEN ParseStringBody(s, i + 1, <<>>)
        ELSE IF s[i] = "{"
             THEN With(SkipWs(s, i + 1), LAMBDA j :
                      IF j <= Len(s) /\ s[j] = "}" THEN ParseOk(JObj(<<>>), j + 1)
                      ELSE ParseMembers(s, j, <<>>))
        ELSE IF s[i] = "["
             THEN With(SkipWs(s, i + 1), LAMBDA j :
                      IF j <= Len(s) /\ s[j] = "]" THEN ParseOk(JArr(<<>>), j + 1)
                      ELSE ParseElements(s, j, <<>>))
        ELSE IF MatchAt(s, <<"n", "u", "l", "l">>, i) THEN ParseOk(JNull, i + 4)
        ELSE IF MatchAt(s, <<"t", "r", "u", "e">>, i) THEN ParseOk(JBool(TRUE), i + 4)
        ELSE IF MatchAt(s, <<"f", "a", "l", "s", "e">>, i) THEN ParseOk(JBool(FALSE), i + 5)
        ELSE ParseNumber(s, i))

\* after a member's value, which ends before i: ',' and the next member, or '}'
AfterMember(s, i, now) ==
    With(SkipWs(s, i), LAMBDA d :
        IF d > Len(s) THEN ParseFail
        ELSE IF s[d] = "}" THEN ParseOk(JObj(now), d + 1)
        ELSE IF s[d] = "," THEN ParseMembers(s, d + 1, now)
        ELSE ParseFail)

\* at i: a key string, then ':', a value, then ',' or '}'
ParseMembers(s, i0, pairs) ==
    With(SkipWs(s, i0), LAMBDA i :
        IF ~(i <= Len(s) /\ s[i] = "\"") THEN ParseFail
        ELSE With(ParseStringBody(s, i + 1, <<>>), LAMBDA key :
            IF ~key.ok THEN ParseFail
            ELSE With(SkipWs(s, key.i), LAMBDA c :
                IF ~(c <= Len(s) /\ s[c] = ":") THEN ParseFail
                ELSE With(ParseValue(s, c + 1), LAMBDA val :
                    IF ~val.ok THEN ParseFail
                    ELSE With(PutKey(pairs, key.v.v, val.v), LAMBDA now :
                             AfterMember(s, val.i, now))))))

\* at i: a value, then ',' or ']'
ParseElements(s, i, items) ==
    With(ParseValue(s, i), LAMBDA val :
        IF ~val.ok THEN ParseFail
        ELSE With(SkipWs(s, val.i), LAMBDA d :
             With(Append(items, val.v), LAMBDA now :
                IF d > Len(s) THEN ParseFail
                ELSE IF s[d] = "]" THEN ParseOk(JArr(now), d + 1)
                ELSE IF s[d] = "," THEN ParseElements(s, d + 1, now)
                ELSE ParseFail)))

\* json.loads(s): the whole of s is one value, white space around it
JsonLoads(s) ==
    With(ParseValue(s, 1), LAMBDA r :
        IF r.ok /\ SkipWs(s, r.i) > Len(s)
        THEN [ok |-> TRUE, v |-> r.v]
        ELSE [ok |-> FALSE, v |-> JNull])

----------------------------------------------------------------------------
(* src/pydantic_models.py: the records the Validator builds.  A Condition's  *)
(* relative_score is Optional[float]: None is [some |-> FALSE, n |-> 0].     *)

NoScore == [some |-> FALSE, n |-> 0]
SomeScore(n) == [some |-> TRUE, n |-> n]

Condition(c, r, conf, score) ==
    [condition |-> c, rationale |-> r, confidence |-> conf, relative_score |-> score]

\* the declared fields, and no other: the model has no notes field
SymptomResponse(inp, pcs, steps, disc) ==
    [input |-> inp, probable_conditions |-> pcs,
     recommended_next_steps |-> steps, disclaimer |-> disc]

NoResponse == SymptomResponse(<<>>, <<>>, <<>>, <<>>)

Ok(resp) == [ok |-> TRUE, err |-> "", resp |-> resp]
Raise(kind) == [ok |-> FALSE, err |-> kind, resp |-> NoResponse]

K_input == Chars("input")
K_probable_conditions == Chars("probable_conditions")
K_recommended_next_steps == Chars("recommended_next_steps")
K_disclaimer == Chars("disclaimer")
K_notes == Chars("notes")
K_condition == Chars("condition")
K_rationale == Chars("rationale")
K_confidence == Chars("confidence")
K_relative_score == Chars("relative_score")

\* Optional[float] from a parsed value: a number, None, or a string float() reads
ScoreOf(x) ==
    IF x.t = "num" THEN [ok |-> TRUE, score |-> SomeScore(x.v)]
    ELSE IF x.t = "null" THEN [ok |-> TRUE, score |-> NoScore]
    ELSE IF x.t = "str"
         THEN With(ParseNumber(x.v, 1), LAMBDA r :
                  IF r.ok /\ r.i > Len(x.v)
                  THEN [ok |-> TRUE, score |-> SomeScore(r.v.v)]
                  ELSE [ok |-> FALSE, score |-> NoScore])
    ELSE [ok |-> FALSE, score |-> NoScore]

IsStrField(pairs, k) == HasKey(pairs, k) /\ GetKey(pairs, k).t = "str"

\* Condition(**pc): three required str fields, relative_score defaults to 0.0
ValidCondition(pc) ==
    /\ pc.t = "obj"
    /\ IsStrField(pc.v, K_condition)
    /\ IsStrField(pc.v, K_rationale)
    /\ IsStrField(pc.v, K_confidence)
    /\ HasKey(pc.v, K_relative_score) => ScoreOf(GetKey(pc.v, K_relative_score)).ok

MakeCondition(pc) ==
    Condition(GetKey(pc.v, K_condition).v, GetKey(pc.v, K_rationale).v,
              GetKey(pc.v, K_confidence).v,
              IF HasKey(pc.v, K_relative_score)
              THEN ScoreOf(GetKey(pc.v, K_relative_score)).score
              ELSE SomeScore(0))

IsArrField(pairs, k) == HasKey(pairs, k) /\ GetKey(pairs, k).t = "arr"

\* SymptomResponse(**parsed): extra keys (notes among them) are ignored
Validate(parsed) ==
    With(parsed.v, LAMBDA d :
        IF ~(/\ IsStrField(d, K_input)
             /\ IsStrField(d, K_disclaimer)
             /\ IsArrField(d, K_probable_conditions)
             /\ IsArrField(d, K_recommended_next_steps))
        THEN Raise("ValidationError")
        ELSE
        With(GetKey(d, K_probable_conditions).v, LAMBDA pcs :
        With(GetKey(d, K_recommended_next_steps).v, LAMBDA steps :
            IF ~(/\ \A n \in 1..Len(pcs) : ValidCondition(pcs[n])
                 /\ \A n \in 1..Len(steps) : steps[n].t = "str")
            THEN Raise("ValidationError")
            ELSE Ok(SymptomResponse(
                     GetKey(d, K_input).v,
                     [n \in 1..Len(pcs) |-> MakeCondition(pcs[n])],
                     [n \in 1..Len(steps) |-> steps[n].v],
                     GetKey(d, K_disclaimer).v)))))

----------------------------------------------------------------------------
(* src/llm_wrapper.py: parse_and_validate_json                               *)

Backtick == "u0060"
Fence == <<Backtick, Backtick, Backtick>>

\* lines 144-147
StripFence(raw_text) ==
    With(Strip(raw_text), LAMBDA raw :
        IF StartsWith(raw, Fence) /\ EndsWith(raw, Fence)
        THEN Strip(JoinLines(SelectSeq(SplitLines(raw),
                                       LAMBDA l : ~StartsWith(Strip(l), Fence))))
        ELSE raw)

RECURSIVE Walk(_, _, _, _, _)
\* lines 154-162: the index where the depth of one bracket type returns to 0,
\* 0 when it never does; one step per bracket of that type from j0 on
Walk(raw, j0, depth, start_ch, end_ch) ==
    With(NextIn(raw, j0, {start_ch, end_ch}), LAMBDA j :
        IF j > Len(raw) THEN 0
        ELSE IF raw[j] = start_ch THEN Walk(raw, j + 1, depth + 1, start_ch, end_ch)
        ELSE IF depth - 1 = 0 THEN j
        ELSE Walk(raw, j + 1, depth - 1, start_ch, end_ch))

RECURSIVE CandidatesFrom(_, _, _, _)
\* lines 152-162 for one bracket type: the spans [s, e], by start index
CandidatesFrom(raw, i, start_ch, end_ch) ==
    With(NextIn(raw, i, {start_ch}), LAMBDA si :
        IF si > Len(raw) THEN <<>>
        ELSE With(Walk(raw, si, 0, start_ch, end_ch), LAMBDA j :
                 (IF j # 0 THEN <<[s |-> si, e |-> j]>> ELSE <<>>)
                 \o CandidatesFrom(raw, si + 1, start_ch, end_ch)))

\* lines 150-162: the '{' candidates, then the '[' candidates
Candidates(raw) ==
    CandidatesFrom(raw, 1, "{", "}") \o CandidatesFrom(raw, 1, "[", "]")

SpanLen(c) == c.e - c.s + 1

\* the last element of the list of maximal length
MaxByLenLast(cands) ==
    cands[CHOOSE n \in 1..Len(cands) :
              /\ \A m \in 1..Len(cands) : SpanLen(cands[m]) <= SpanLen(cands[n])
              /\ \A m \in (n + 1)..Len(cands) : SpanLen(cands[m]) < SpanLen(cands[n])]

\* max(candidates, key=len): the first element of the list of maximal length
MaxByLen(cands) ==
    cands[CHOOSE n \in 1..Len(cands) :
              /\ \A m \in 1..Len(cands) : SpanLen(cands[m]) <= SpanLen(cands[n])
              /\ \A m \in 1..(n - 1) : SpanLen(cands[m]) < SpanLen(cands[n])]

NoSpan == [s |-> 0, e |-> 0]

\* lines 165-167: the first '{' to the last '}'
NaiveSlice(raw) ==
    With(FindChar(raw, "{"), LAMBDA fi :
    With(RFindChar(raw, "}"), LAMBDA la :
        IF fi # 0 /\ la # 0 /\ la > fi THEN [s |-> fi, e |-> la] ELSE NoSpan))

\* lines 163-169: the span of the candidate, NoSpan when none is located
SelectCandidate(raw) ==
    With(Candidates(raw), LAMBDA cands :
        IF cands # <<>> THEN MaxByLen(cands) ELSE NaiveSlice(raw))

RECURSIVE RemoveTrailingCommasFrom(_, _)
\* one step per comma
RemoveTrailingCommasFrom(s, i) ==
    With(NextIn(s, i, {","}), LAMBDA p :
        IF p > Len(s) THEN SubSeq(s, i, Len(s))
        ELSE With(SkipWs(s, p + 1), LAMBDA j :
            IF j <= Len(s) /\ s[j] \in {"}", "]"}
            THEN SubSeq(s, i, p - 1) \o <<s[j]>> \o RemoveTrailingCommasFrom(s, j + 1)
            ELSE SubSeq(s, i, p) \o RemoveTrailingCommasFrom(s, p + 1)))

\* re.sub(r",\s*([}\]])", r"\1", s)
RemoveTrailingCommas(s) == RemoveTrailingCommasFrom(s, 1)

\* the first of the texts that json.loads reads, read; the last one's failure if none
RECURSIVE LoadFirst(_, _)
LoadFirst(texts, n) ==
    With(JsonLoads(texts[n]), LAMBDA r :
        IF r.ok \/ n = Len(texts) THEN r ELSE LoadFirst(texts, n + 1))

\* lines 172-181: s, then s without trailing commas, then that with ' as "
try_load(s) ==
    With(RemoveTrailingCommas(s), LAMBDA s2 :
        LoadFirst(<<s, s2, Replace(s2, <<"'">>, <<"\"">>)>>, 1))

\* the table read without lower-casing the confidence value
RescueScoreCaseSensitive(pc) ==
    With(IF HasKey(pc.v, K_confidence) /\ GetKey(pc.v, K_confidence).t = "str"
         THEN GetKey(pc.v, K_confidence).v
         ELSE <<>>,
         LAMBDA conf :
            IF conf = Chars("high") THEN 75
            ELSE IF conf = Chars("medium") THEN 50
            ELSE IF conf = Chars("low") THEN 25
            ELSE 33)

\* lines 190-198: the score Field Rescue derives from a confidence value
RescueScore(pc) ==
    With(IF HasKey(pc.v, K_confidence) /\ GetKey(pc.v, K_confidence).t = "str"
         THEN Lower(GetKey(pc.v, K_confidence).v)
         ELSE <<>>,     \* absent, or str() of a value that is no label
         LAMBDA conf :
            IF conf = Chars("high") THEN 75
            ELSE IF conf = Chars("medium") THEN 50
            ELSE IF conf = Chars("low") THEN 25
            ELSE 33)

\* lines 189-199 for one element: "ok", or the exception the element raises
RescueKind(pc) ==
    IF pc.t = "obj" THEN "ok"
    ELSE IF pc.t = "str"
         THEN IF Contains(pc.v, K_relative_score) THEN "ok" ELSE "AttributeError"
    ELSE IF pc.t = "arr"
         THEN IF \E n \in 1..Len(pc.v) : pc.v[n].t = "str" /\ pc.v[n].v = K_relative_score
              THEN "ok" ELSE "AttributeError"
    ELSE "TypeError"

NeedsRescue(pc) == pc.t = "obj" /\ ~HasKey(pc.v, K_relative_score)

RescueOne(pc) ==
    IF NeedsRescue(pc)
    THEN JObj(PutKey(pc.v, K_relative_score, JNum(RescueScore(pc))))
    ELSE pc

\* what "for pc in pcs" iterates over
IterItems(pcs) ==
    IF pcs.t = "arr" THEN pcs.v
    ELSE IF pcs.t = "obj" THEN [n \in 1..Len(pcs.v) |-> JStr(pcs.v[n].k)]
    ELSE IF pcs.t = "str" THEN [n \in 1..Len(pcs.v) |-> JStr(<<pcs.v[n]>>)]
    ELSE <<>>

Marker == Chars("parsed_and_rescued_relative_score")

Rescued(err, v, rescued) == [err |-> err, v |-> v, rescued |-> rescued]

\* lines 201-203: the notes of a document in which an element was rescued
AddNote(d) ==
    With(IF HasKey(d, K_notes) THEN GetKey(d, K_notes) ELSE JStr(<<>>), LAMBDA old :
        IF old.t # "str" THEN Rescued("TypeError", JObj(d), TRUE)
        ELSE Rescued("", JObj(PutKey(d, K_notes, JStr(Strip(old.v \o <<" ">> \o Marker)))),
                     TRUE))

\* lines 188-199: the loop over the elements of pcs, which d holds
RescueLoop(d, pcs) ==
    With(IterItems(pcs), LAMBDA items :
    With([n \in 1..Len(items) |-> RescueKind(items[n])], LAMBDA kinds :
        IF \E n \in 1..Len(items) : kinds[n] # "ok"
        THEN Rescued(kinds[CHOOSE n \in 1..Len(items) :
                               kinds[n] # "ok" /\ \A m \in 1..(n - 1) : kinds[m] = "ok"],
                     JObj(d), FALSE)
        ELSE IF ~\E n \in 1..Len(items) : NeedsRescue(items[n])
        THEN Rescued("", JObj(d), FALSE)
        ELSE AddNote(PutKey(d, K_probable_conditions,
                            JArr([n \in 1..Len(items) |-> RescueOne(items[n])])))))

\* lines 186-203: [err, v, rescued]; err is "" or the exception raised
RescueDoc(parsed) ==
    IF parsed.t # "obj" THEN Rescued("AttributeError", parsed, FALSE)
    ELSE IF ~HasKey(parsed.v, K_probable_conditions) THEN Rescued("", parsed, FALSE)
    ELSE IF GetKey(parsed.v, K_probable_conditions).t \in {"null", "num", "bool"}
    THEN Rescued("TypeError", parsed, FALSE)
    ELSE RescueLoop(parsed.v, GetKey(parsed.v, K_probable_conditions))

NoRun == [raw |-> <<>>, span |-> NoSpan, loaded |-> FALSE, parsed |-> JNull,
          rescued |-> FALSE, doc |-> JNull, result |-> Raise("")]

RunOf(raw, span, loaded, parsed, rescued, doc, result) ==
    [raw |-> raw, span |-> span, loaded |-> loaded, parsed |-> parsed,
     rescued |-> rescued, doc |-> doc, result |-> result]

\* lines 139-207, with the value of every stage
PipelineRun(raw_text) ==
    With(StripFence(raw_text), LAMBDA raw :
    With(SelectCandidate(raw), LAMBDA span :
        IF span = NoSpan
        THEN RunOf(raw, span, FALSE, JNull, FALSE, JNull, Raise("ValueError"))
        ELSE
        With(try_load(SubSeq(raw, span.s, span.e)), LAMBDA loaded :
            IF ~loaded.ok
            THEN RunOf(raw, span, FALSE, JNull, FALSE, JNull, Raise("JSONDecodeError"))
            ELSE
            With(RescueDoc(loaded.v), LAMBDA fixed :
                IF fixed.err # ""
                THEN RunOf(raw, span, TRUE, loaded.v, FALSE, JNull, Raise(fixed.err))
                ELSE RunOf(raw, span, TRUE, loaded.v, fixed.rescued, fixed.v,
                           Validate(fixed.v))))))

parse_and_validate_json(raw_text) == PipelineRun(raw_text).result

----------------------------------------------------------------------------
(* json.dumps(obj, ensure_ascii=False) with the default separators           *)

RECURSIVE EscapeFrom(_, _)
\* one step per character that needs an escape
EscapeFrom(c, i) ==
    With(NextIn(c, i, {"\"", "\\", "\n", "\t", "\r"}), LAMBDA p :
        IF p > Len(c) THEN SubSeq(c, i, Len(c))
        ELSE SubSeq(c, i, p - 1)
             \o <<"\\", IF c[p] = "\n" THEN "n" ELSE IF c[p] = "\t" THEN "t"
                         ELSE IF c[p] = "\r" THEN "r" ELSE c[p]>>
             \o EscapeFrom(c, p + 1))

DumpString(c) == <<"\"">> \o EscapeFrom(c, 1) \o <<"\"">>

RECURSIVE DumpNat(_)
DumpNat(n) == IF n < 10 THEN <<Digits[n + 1]>> ELSE DumpNat(n \div 10) \o <<Digits[(n % 10) + 1]>>

\* float.__repr__ of a number of hundredths: 75 is 0.75, 50 is 0.5, 100 is 1.0
DumpFloat(n) ==
    With(IF n < 0 THEN 0 - n ELSE n, LAMBDA mag :
        (IF n < 0 THEN <<"-">> ELSE <<>>) \o DumpNat(mag \div 100) \o <<".">>
        \o (IF mag % 10 = 0 THEN <<Digits[((mag % 100) \div 10) + 1]>>
            ELSE <<Digits[((mag % 100) \div 10) + 1], Digits[(mag % 10) + 1]>>))

RECURSIVE JsonDumps(_)
RECURSIVE DumpItems(_, _)
RECURSIVE DumpPairs(_, _)

JsonDumps(x) ==
    IF x.t = "null" THEN Chars("null")
    ELSE IF x.t = "bool" THEN (IF x.v THEN Chars("true") ELSE Chars("false"))
    ELSE IF x.t = "num" THEN DumpFloat(x.v)
    ELSE IF x.t = "str" THEN DumpString(x.v)
    ELSE IF x.t = "arr" THEN <<"[">> \o DumpItems(x.v, 1) \o <<"]">>
    ELSE <<"{">> \o DumpPairs(x.v, 1) \o <<"}">>

DumpItems(items, n) ==
    IF n > Len(items) THEN <<>>
    ELSE (IF n > 1 THEN Chars(", ") ELSE <<>>) \o JsonDumps(items[n]) \o DumpItems(items, n + 1)

DumpPairs(pairs, n) ==
    IF n > Len(pairs) THEN <<>>
    ELSE (IF n > 1 THEN Chars(", ") ELSE <<>>)
         \o DumpString(pairs[n].k) \o Chars(": ") \o JsonDumps(pairs[n].x)
         \o DumpPairs(pairs, n + 1)

Pair(k, x) == [k |-> k, x |-> x]

\* SymptomResponse.dict(): the declared fields, in order
ConditionDict(c) ==
    JObj(<<Pair(K_condition, JStr(c.condition)),
           Pair(K_rationale, JStr(c.rationale)),
           Pair(K_confidence, JStr(c.confidence)),
           Pair(K_relative_score,
                IF c.relative_score.some THEN JNum(c.relative_score.n) ELSE JNull)>>)

ResponseDict(r) ==
    JObj(<<Pair(K_input, JStr(r.input)),
           Pair(K_probable_conditions,
                JArr([n \in 1..Len(r.probable_conditions) |->
                         ConditionDict(r.probable_conditions[n])])),
           Pair(K_recommended_next_steps,
                JArr([n \in 1..Len(r.recommended_next_steps) |->
                         JStr(r.recommended_next_steps[n])])),
           Pair(K_disclaimer, JStr(r.disclaimer))>>)

----------------------------------------------------------------------------
(* src/llm_wrapper.py: the model call, the log and the inference chain       *)

Unclear == Chars("Unclear ") \o <<EmDash>> \o Chars(" further questions required")

\* lines 42-54
mock_llm(symptoms) ==
    JsonDumps(ResponseDict(SymptomResponse(
        symptoms,
        <<Condition(Unclear, Chars("Based on matching keywords."), Chars("low"),
                    SomeScore(0))>>,
        <<Chars("Educational only. Monitor symptoms and consult a healthcare provider if worsening."),
          Chars("If severe or emergency signs: seek emergency care.")>>,
        Chars("Educational use only. Not medical advice."))))

\* what the provider does with one request: raise, or answer with a text
ProviderRaises == [raises |-> TRUE, text |-> <<>>]
ProviderSays(text) == [raises |-> FALSE, text |-> text]

\* lines 61-137: [raised, text].  use_openai is the module's USE_OPENAI,
\* allowed the answer of LLM_RATE_LIMITER.allow(), reply the provider's act
call_openai_llm(symptoms, use_openai, allowed, reply) ==
    IF ~use_openai THEN [raised |-> FALSE, text |-> mock_llm(symptoms)]
    ELSE IF ~allowed THEN [raised |-> TRUE, text |-> <<>>]
    ELSE IF reply.raises THEN [raised |-> FALSE, text |-> mock_llm(symptoms)]
    ELSE [raised |-> FALSE, text |-> reply.text]

\* lines 227-235: the row inserted; symptom_hash is the text that is hashed
LogRow(symptom_text, engine, top_condition, top_score, notes) ==
    [symptom_hash |-> Lower(Strip(symptom_text)), engine |-> engine,
     top_condition |-> top_condition, top_score |-> top_score, notes |-> notes]

emergencies == <<Chars("chest pain"), Chars("severe chest pain"),
                 Chars("difficulty breathing"), Chars("shortness of breath"),
                 Chars("unconscious"), Chars("severe bleeding"), Chars("fainting")>>

\* the phrases looked for in the text as given, not lower-cased
EmergencyMatchCaseSensitive(symptoms) ==
    \E n \in 1..Len(emergencies) : Contains(symptoms, emergencies[n])

\* lines 246-249
EmergencyMatch(symptoms) ==
    With(Lower(symptoms), LAMBDA s : \E n \in 1..Len(emergencies) : Contains(s, emergencies[n]))

Disclaimer == Chars("Educational only. Not medical advice.")
SeeClinician == <<Chars("Educational only. Consider seeing a clinician for evaluation.")>>

\* lines 251-256
EmergencyResponse(symptoms) ==
    SymptomResponse(
        symptoms,
        <<Condition(Chars("Possible emergency ") \o <<EmDash>> \o Chars(" seek immediate care"),
                    Chars("Emergency keyword matched."), Chars("high"), SomeScore(100))>>,
        <<Chars("Seek emergency care immediately.")>>,
        Disclaimer)

\* lines 263-264
RuleResponse(symptoms, rules) ==
    SymptomResponse(
        symptoms,
        [n \in 1..Len(rules) |->
            Condition(rules[n].cond, Chars("Matched rule keywords."),
                      IF rules[n].score < 100 THEN Chars("medium") ELSE Chars("high"),
                      SomeScore(rules[n].score))],
        SeeClinician,
        Disclaimer)

\* lines 282-287 and 292-297
UnclearResponse(symptoms, rationale) ==
    SymptomResponse(
        symptoms,
        <<Condition(Unclear, rationale, Chars("low"), SomeScore(0))>>,
        SeeClinician,
        Disclaimer)

Returned(resp) == [kind |-> "response", resp |-> resp, err |-> ""]
Raised(err) == [kind |-> "exception", resp |-> NoResponse, err |-> err]
NoOutcome == [kind |-> "none", resp |-> NoResponse, err |-> ""]

Result(outcome, tier, rows, invoked, raw, run) ==
    [outcome |-> outcome, tier |-> tier, rows |-> rows, invoked |-> invoked,
     raw |-> raw, run |-> run]

\* lines 278-288: the handler of the try block
Fallback(symptoms, err, raw, run) ==
    Result(Returned(UnclearResponse(symptoms,
               Chars("Fallback due to LLM parse/validation error."))),
           "fallback",
           <<LogRow(symptoms, "fallback", Unclear, 0, "llm_parse_error:" \o err)>>,
           TRUE, raw, run)

\* lines 272-288: the try block and its handler, given the model's text
LlmTier(symptoms, raw) ==
    With(PipelineRun(raw), LAMBDA run :
        IF ~run.result.ok THEN Fallback(symptoms, run.result.err, raw, run)
        ELSE
        With(run.result.resp, LAMBDA validated :
            IF validated.probable_conditions = <<>>
            THEN Fallback(symptoms, "IndexError", raw, run)
            ELSE IF ~validated.probable_conditions[1].relative_score.some
            THEN \* float(None) in log_query, before the insert
                 Fallback(symptoms, "TypeError", raw, run)
            ELSE Result(Returned(validated), "llm",
                        <<LogRow(symptoms, "llm",
                                 validated.probable_conditions[1].condition,
                                 validated.probable_conditions[1].relative_score.n, "")>>,
                        TRUE, raw, run)))

\* lines 269-298: no emergency phrase and no rule matched
AfterRules(symptoms, allow_llm, use_openai, allowed, reply) ==
    IF allow_llm
    THEN With(call_openai_llm(symptoms, use_openai, allowed, reply), LAMBDA called :
             IF called.raised
             THEN Result(Raised("RuntimeError"), "none", <<>>, TRUE, <<>>, NoRun)
             ELSE LlmTier(symptoms, called.text))
    ELSE Result(Returned(UnclearResponse(symptoms,
                    Chars("LLM disabled or no rules matched."))),
                "no_llm",
                <<LogRow(symptoms, "no_llm", Unclear, 0, "llm_disabled")>>,
                FALSE, <<>>, NoRun)

\* lines 237-298: what one call does: its outcome, the rows it inserts, whether
\* it called call_openai_llm
get_safely_inferred(symptoms, allow_llm, use_openai, allowed, reply) ==
    IF EmergencyMatch(symptoms)
    THEN With(EmergencyResponse(symptoms), LAMBDA out :
             Result(Returned(out), "emergency",
                    <<LogRow(symptoms, "emergency", out.probable_conditions[1].condition,
                             100, "emergency_short_circuit")>>,
                    FALSE, <<>>, NoRun))
    ELSE
    With(infer_conditions(symptoms), LAMBDA rules :
        IF rules # <<>> /\ rules[1].score > 0
        THEN Result(Returned(RuleResponse(symptoms, rules)), "rule_based",
                    <<LogRow(symptoms, "rule_based", rules[1].cond, rules[1].score,
                             "rule_based_match")>>,
                    FALSE, <<>>, NoRun)
        ELSE AfterRules(symptoms, allow_llm, use_openai, allowed, reply))

\* whether a call with these arguments reaches line 271
ReachesModelCall(symptoms, allow_llm) ==
    /\ allow_llm
    /\ ~EmergencyMatch(symptoms)
    /\ With(infer_conditions(symptoms), LAMBDA rules : ~(rules # <<>> /\ rules[1].score > 0))

----------------------------------------------------------------------------
(* The inputs the checks draw from.                                          *)

MaxCalls == 2      \* calls of get_safely_inferred in one run
MaxWords == 2      \* fragments in a generated symptom text
MaxConds == 2      \* elements of probable_conditions in a generated model text
MaxFrags == 3      \* fragments in a generated bracket text

\* every sequence of at most n elements of S
SeqsUpTo(S, n) == UNION {[1..k -> S] : k \in 0..n}

RECURSIVE Concat(_)
Concat(parts) == IF parts = <<>> THEN <<>> ELSE Head(parts) \o Concat(Tail(parts))

SymptomTexts ==
    { Chars("I have chest pain"), Chars("CHEST PAIN and fever"),
      Chars("Shortness of Breath"), Chars("she is Unconscious, feverish"),
      Chars("difficulty breathing"), Chars("Severe Bleeding"), Chars("fainting cough"),
      Chars("fever and sore throat"), Chars("Feaver"), Chars("I keep throwing up"),
      Chars("COUGH!"), Chars("bad Headache"), Chars("fatigue"),
      Chars("vague tiredness"), Chars("head-ache"), Chars("breathless"), Chars("a}b") }

SymptomWords ==
    { Chars("Chest "), Chars("pain"), Chars("FAINTING"),
      Chars("Fever"), Chars("feaver"), Chars("soar"), Chars(" throat"),
      Chars("head"), Chars("ache"), Chars("throw up") }

\* symptom texts put together from at most MaxWords fragments
WordTexts == {Concat(w) : w \in SeqsUpTo(SymptomWords, MaxWords)}

\* a model text: a JSON object of the response shape, with notes if given
Doc(inp, conds, notes) ==
    JObj(<<Pair(K_input, JStr(inp)),
           Pair(K_probable_conditions, JArr(conds)),
           Pair(K_recommended_next_steps, JArr(<<JStr(Chars("rest"))>>)),
           Pair(K_disclaimer, JStr(Chars("d")))>>
         \o (IF notes = <<>> THEN <<>> ELSE <<Pair(K_notes, JStr(notes))>>))

\* an element of probable_conditions; conf and score are JSON values, and
\* <<>> stands for a key that is left out
CondObj(name, conf, score) ==
    JObj(<<Pair(K_condition, JStr(name)), Pair(K_rationale, JStr(Chars("r")))>>
         \o (IF conf = <<>> THEN <<>> ELSE <<Pair(K_confidence, conf)>>)
         \o (IF score = <<>> THEN <<>> ELSE <<Pair(K_relative_score, score)>>))

\* what the provider may answer when it is asked
ProviderTexts ==
    { JsonDumps(Doc(Chars("other text"),
                    <<CondObj(Chars("flu"), JStr(Chars("high")), JNum(90))>>, <<>>)),
      Chars("Sure! Here it is:\n") \o Fence \o Chars("json\n")
          \o JsonDumps(Doc(Chars("x"),
                           <<CondObj(Chars("cold"), JStr(Chars("medium")), <<>>)>>, <<>>))
          \o Chars("\n") \o Fence,
      JsonDumps(Doc(Chars("x"), <<>>, <<>>)),
      JsonDumps(Doc(Chars("x"), <<CondObj(Chars("flu"), JStr(Chars("low")), JNull)>>, <<>>)),
      JsonDumps(Doc(Chars("x"), <<CondObj(Chars("flu"), JStr(Chars("low")), JNum(20)),
                                  CondObj(Chars("cold"), JStr(Chars("low")), JNull)>>, <<>>)),
      Chars("I cannot help with that.") }

\* what the limiter and the provider do in one call that reaches them
Envs(sy, al, use_openai) ==
    IF use_openai /\ ReachesModelCall(sy, al)
    THEN {[allowed |-> FALSE, reply |-> ProviderRaises],
          [allowed |-> TRUE, reply |-> ProviderRaises]}
         \cup {[allowed |-> TRUE, reply |-> ProviderSays(t)] : t \in ProviderTexts}
    ELSE {[allowed |-> TRUE, reply |-> ProviderRaises]}

\* the shapes of an element of probable_conditions, by number
CondShape(i) ==
    CASE i = 1 -> CondObj(Chars("c"), JStr(Chars("high")), <<>>)
      [] i = 2 -> CondObj(Chars("c"), JStr(Chars("Medium")), <<>>)
      [] i = 3 -> CondObj(Chars("c"), JStr(Chars("LOW")), <<>>)
      [] i = 4 -> CondObj(Chars("c"), JStr(Chars("unsure")), <<>>)
      [] i = 5 -> CondObj(Chars("c"), <<>>, <<>>)
      [] i = 6 -> CondObj(Chars("c"), JStr(Chars("high")), JNum(10))
      [] OTHER -> CondObj(Chars("c"), JStr(Chars("low")), JNull)

CondShapes == 1..7

\* the ways a document reaches the pipeline: as json.dumps writes it, in a
\* fence, in a fence amid commentary, with trailing commas, and with trailing
\* commas and single quotes
Styled(text) ==
    { text,
      Fence \o Chars("json\n") \o text \o Chars("\n") \o Fence,
      Chars("Here you go:\n") \o Fence \o Chars("json\n") \o text \o Chars("\n")
          \o Fence \o Chars("\nTake care."),
      Replace(text, <<"}">>, Chars(", }")),
      Replace(Replace(text, <<"}">>, Chars(",}")), <<"\"">>, <<"'">>) }

DocTexts ==
    UNION { Styled(JsonDumps(Doc(Chars("x"), [n \in DOMAIN ids |-> CondShape(ids[n])], notes))) :
              ids \in SeqsUpTo(CondShapes, MaxConds), notes \in {<<>>, Chars("seen")} }

BracketFrags ==
    { Chars("{a}"), Chars("[1]"), Chars("[12]"), Chars("{a{b}}"), Chars("x"),
      Chars("{"), Chars("]"), Chars("[{}") }

BracketTexts == {Concat(f) : f \in SeqsUpTo(BracketFrags, MaxFrags)}

RawTexts == DocTexts \cup BracketTexts

\* the field texts of the responses that are written and read back
FieldTexts ==
    { Chars("a"), Chars("a{b"), Chars("a}b"), Chars("{a}"), Chars("x[y"), Chars("[x]"),
      Chars("say \"hi\""), Chars("a, b"), Chars("it's"), Chars("back\\slash") }

Responses ==
    { SymptomResponse(inp, conds, steps, Chars("d")) :
        inp \in FieldTexts,
        conds \in SeqsUpTo({ Condition(c, Chars("r"), Chars("low"), sc) :
                                 c \in {Chars("c"), Chars("c}")},
                                 sc \in {NoScore, SomeScore(50)} }, 1),
        steps \in {<<>>, <<Chars("s")>>, <<Chars("s{"), Chars("t")>>} }

----------------------------------------------------------------------------
(* The state: the module's USE_OPENAI, the rows of the queries table, what   *)
(* the last call of get_safely_inferred was given and did, and the text and  *)
(* stages of the last run of the pipeline.                                   *)

VARIABLES USE_OPENAI, calls, symptoms, allow_llm, outcome, tier, invoked, log,
          raw_text, run, original

vars == <<USE_OPENAI, calls, symptoms, allow_llm, outcome, tier, invoked, log,
          raw_text, run, original>>

NoCallYet ==
    /\ calls = 0
    /\ outcome = NoOutcome
    /\ tier = "none"
    /\ invoked = FALSE
    /\ log = <<>>
    /\ run = NoRun

Init ==
    /\ USE_OPENAI \in BOOLEAN
    /\ NoCallYet
    /\ symptoms = <<>>
    /\ allow_llm = FALSE
    /\ raw_text = <<>>
    /\ original = NoResponse

\* one call of get_safely_inferred(sy, allow_llm=al)
Serve(sy, al) ==
    /\ \E env \in Envs(sy, al, USE_OPENAI) :
         \E r \in {get_safely_inferred(sy, al, USE_OPENAI, env.allowed, env.reply)} :
             /\ symptoms' = sy
             /\ allow_llm' = al
             /\ outcome' = r.outcome
             /\ tier' = r.tier
             /\ invoked' = r.invoked
             /\ log' = log \o r.rows
             /\ raw_text' = r.raw
             /\ run' = r.run
    /\ calls' = calls + 1
    /\ UNCHANGED <<USE_OPENAI, original>>

\* the server: one request after another
Request == calls < MaxCalls /\ \E sy \in SymptomTexts, al \in BOOLEAN : Serve(sy, al)

Next == Request

Spec == Init /\ [][Next]_vars

\* one call, on a symptom text put together from fragments
InitTriage ==
    /\ USE_OPENAI \in BOOLEAN
    /\ NoCallYet
    /\ symptoms \in WordTexts
    /\ allow_llm \in BOOLEAN
    /\ raw_text = <<>>
    /\ original = NoResponse

Triage == calls = 0 /\ Serve(symptoms, allow_llm)

SpecTriage == InitTriage /\ [][Triage]_vars

\* parse_and_validate_json on one text
InitParse ==
    /\ USE_OPENAI = FALSE
    /\ NoCallYet
    /\ symptoms = <<>>
    /\ allow_llm = FALSE
    /\ raw_text \in RawTexts
    /\ original = NoResponse

ParseAndValidate ==
    /\ calls = 0
    /\ run' = PipelineRun(raw_text)
    /\ calls' = 1
    /\ UNCHANGED <<USE_OPENAI, symptoms, allow_llm, outcome, tier, invoked, log,
                   raw_text, original>>

SpecParse == InitParse /\ [][ParseAndValidate]_vars

\* a response written with json.dumps and read back by the pipeline
InitRoundTrip ==
    /\ USE_OPENAI = FALSE
    /\ NoCallYet
    /\ symptoms = <<>>
    /\ allow_llm = FALSE
    /\ raw_text = <<>>
    /\ original \in Responses

Serialize ==
    /\ calls = 0
    /\ raw_text' = JsonDumps(ResponseDict(original))
    /\ calls' = 1
    /\ UNCHANGED <<USE_OPENAI, symptoms, allow_llm, outcome, tier, invoked, log, run,
                   original>>

Reparse ==
    /\ calls = 1
    /\ run' = PipelineRun(raw_text)
    /\ calls' = 2
    /\ UNCHANGED <<USE_OPENAI, symptoms, allow_llm, outcome, tier, invoked, log,
                   raw_text, original>>

NextRoundTrip == Serialize \/ Reparse

SpecRoundTrip == InitRoundTrip /\ [][NextRoundTrip]_vars

----------------------------------------------------------------------------
(* The claims.                                                               *)

\* C1: a call of get_safely_inferred never ends in an exception raised to its
\* caller; it always returns a SymptomResponse, whatever the rate limiter, the
\* provider and the pipeline do.
C1_NeverRaises == calls > 0 => outcome.kind = "response"

\* pat occurs in text when letter case is ignored (pat is in lower case)
OccursIgnoringCase(text, pat) ==
    \E i \in 1..Len(text) :
        /\ i + Len(pat) - 1 <= Len(text)
        /\ \A k \in 1..Len(pat) : LowerChar(text[i + k - 1]) = pat[k]

HasEmergencyPhrase(text) ==
    \E p \in { Chars("chest pain"), Chars("severe chest pain"), Chars("difficulty breathing"),
               Chars("shortness of breath"), Chars("unconscious"), Chars("severe bleeding"),
               Chars("fainting") } : OccursIgnoringCase(text, p)

\* a rule keyword occurs in the normal form of the text
HasRuleKeyword(text) ==
    \E k \in 1..Len(RULES) : Contains(normalize_text(text), RULES[k][1])

C3_RuleKeywordNoModelCall ==
    (calls > 0 /\ HasRuleKeyword(symptoms)) => ~invoked

\* a keyword that only the normal form has, the LLM allowed and configured, and
\* the rule tier answering
C3_Witness ==
    /\ calls > 0
    /\ HasRuleKeyword(symptoms)
    /\ \A k \in 1..Len(RULES) : ~Contains(symptoms, RULES[k][1])
    /\ allow_llm
    /\ USE_OPENAI
    /\ tier = "rule_based"
    /\ ~invoked

\* C4: the input field of every response get_safely_inferred returns is the
\* symptom text the caller passed.
C4_InputIsQuery == outcome.kind = "response" => outcome.resp.input = symptoms

\* C5: when the pipeline rescues an element of probable_conditions, the
\* SymptomResponse it returns has a notes field that contains the marker.
C5_RescueNoted ==
    (calls = 1 /\ run.rescued /\ run.result.ok) =>
        /\ "notes" \in DOMAIN run.result.resp
        /\ Contains(run.result.resp.notes, Marker)

\* the claim's table: the score for the pairs of an element without relative_score
TableScore(pairs) ==
    IF ~HasKey(pairs, K_confidence) \/ GetKey(pairs, K_confidence).t # "str" THEN 33
    ELSE IF Lower(GetKey(pairs, K_confidence).v) = Chars("high") THEN 75
    ELSE IF Lower(GetKey(pairs, K_confidence).v) = Chars("medium") THEN 50
    ELSE IF Lower(GetKey(pairs, K_confidence).v) = Chars("low") THEN 25
    ELSE 33

LacksScore(pc) == pc.t = "obj" /\ ~HasKey(pc.v, K_relative_score)

\* what the claim says Field Rescue makes of one element
RescueAsClaimed(before, after) ==
    IF LacksScore(before)
    THEN JsonDumps(after)
         = JsonDumps(JObj(Append(before.v, Pair(K_relative_score,
                                               JNum(TableScore(before.v))))))
    ELSE JsonDumps(after) = JsonDumps(before)

\* the elements of probable_conditions before and after Field Rescue
ElementsBefore == GetKey(run.parsed.v, K_probable_conditions).v
ElementsAfter == GetKey(run.doc.v, K_probable_conditions).v

RescueRan ==
    /\ calls = 1
    /\ run.loaded
    /\ run.doc.t = "obj"
    /\ HasKey(run.parsed.v, K_probable_conditions)
    /\ GetKey(run.parsed.v, K_probable_conditions).t = "arr"

\* C6: Field Rescue gives every element that lacks the relative_score key the
\* score of the table (0.75 high, 0.5 medium, 0.25 low, case ignored; 0.33 for
\* anything else or no confidence) and leaves every other element as it was.
C6_RescueTable ==
    RescueRan =>
        /\ Len(ElementsAfter) = Len(ElementsBefore)
        /\ \A n \in 1..Len(ElementsBefore) :
               RescueAsClaimed(ElementsBefore[n], ElementsAfter[n])

\* one element rescued from a label not in lower case, next to one that had a score
C6_Witness ==
    /\ RescueRan
    /\ run.rescued
    /\ \E n \in 1..Len(ElementsBefore) :
           /\ LacksScore(ElementsBefore[n])
           /\ TableScore(ElementsBefore[n].v) # 33
           /\ GetKey(ElementsBefore[n].v, K_confidence).v
                  # Lower(GetKey(ElementsBefore[n].v, K_confidence).v)
    /\ \E n \in 1..Len(ElementsBefore) : ~LacksScore(ElementsBefore[n])

\* C7: a SymptomResponse written with json.dumps and read back by
\* parse_and_validate_json is the same record, whatever its text fields hold.
C7_RoundTrip == calls = 2 => (run.result.ok /\ run.result.resp = original)

\* C8: every Condition of every response get_safely_inferred returns has a
\* relative_score that is a number, never None.
C8_ScoreNeverNone ==
    outcome.kind = "response" =>
        \A n \in 1..Len(outcome.resp.probable_conditions) :
            outcome.resp.probable_conditions[n].relative_score.some

\* C9: every call has appended exactly one row to the log, and the engine of
\* the row of the last call is the tier that answered it.
C9_OneRowPerCall ==
    /\ Len(log) = calls
    /\ calls > 0 => log[Len(log)].engine = tier

\* c is one of the longest of the candidate spans found
IsLongest(found, c) == \A n \in 1..Len(found) : SpanLen(found[n]) <= SpanLen(c)

\* span is a longest candidate; to every other longest one it is preferred as
\* a '{' candidate to a '[' candidate, or as the earlier of one bracket type
ChosenBraceFirst(raw, found, span) ==
    /\ \E n \in 1..Len(found) : found[n] = span
    /\ IsLongest(found, span)
    /\ \A n \in 1..Len(found) :
           (SpanLen(found[n]) = SpanLen(span) /\ found[n] # span) =>
               \/ raw[span.s] = "{" /\ raw[found[n].s] = "["
               \/ raw[span.s] = raw[found[n].s] /\ span.s < found[n].s

\* span is a longest candidate, and no other longest one starts before it
ChosenFirstInText(raw, found, span) ==
    /\ IsLongest(found, span)
    /\ \A n \in 1..Len(found) : SpanLen(found[n]) = SpanLen(span) => span.s <= found[n].s

\* the extractor ran on a text in which it found candidates
ExtractorChose == calls = 1 /\ run.span # NoSpan /\ Candidates(run.raw) # <<>>

\* C10 (as amended): the extractor selects a longest candidate; among several
\* longest ones it prefers a '{' candidate to a '[' candidate, and among those
\* of one bracket type the one that starts first.
C10_LongestBraceFirst ==
    ExtractorChose =>
        With(Candidates(run.raw), LAMBDA found : ChosenBraceFirst(run.raw, found, run.span))

\* C10 (as stated): the extractor selects a longest candidate, and among
\* several longest ones the one that occurs first in the text.
C10_LongestFirstInText ==
    ExtractorChose =>
        With(Candidates(run.raw), LAMBDA found : ChosenFirstInText(run.raw, found, run.span))

\* a '[' candidate and a later '{' candidate are both longest and the later one
\* is selected, and a second candidate of its bracket type is as long
C10_Witness ==
    /\ ExtractorChose
    /\ With(Candidates(run.raw), LAMBDA found :
           /\ \E n \in 1..Len(found) :
                  /\ SpanLen(found[n]) = SpanLen(run.span)
                  /\ run.raw[found[n].s] = "["
                  /\ found[n].s < run.span.s
           /\ \E n \in 1..Len(found) :
                  /\ SpanLen(found[n]) = SpanLen(run.span)
                  /\ run.raw[found[n].s] = run.raw[run.span.s]
                  /\ found[n].s > run.span.s)

====
